---- MODULE Spec2Model ----
(***************************************************************************)
(* musemonitor/online.py: the rolling window of a TimeSeries (class Data   *)
(* and class TimeSeries), fed by one thread calling update() and read by   *)
(* client threads through the data property.                              *)
(*                                                                         *)
(* The lock is threading.Lock (line 33): not re-entrant, no owner check.   *)
(* Each statement that touches shared state is one step, so the places     *)
(* where a thread holds or waits for the lock are states of the model.     *)
(***************************************************************************)
EXTENDS Integers, Sequences, FiniteSets, TLC

\* ------------------------------------------------------------- bounds
\* Samples kept in the window: int(window * sfreq), line 69.
n_samples == 2
\* Longest timestamps / samples argument of one update call.
MaxChunk == 3
\* Number of client threads reading the window.
NClients == 2
\* Most values handed to update, over all its calls.
MaxTotal == 5

\* ------------------------------------------------------------ threads
feeder == "feeder"
ClientNames == <<"c1", "c2", "c3", "c4">>
ActiveClients == {ClientNames[i] : i \in 1..NClients}
Threads == {feeder} \cup ActiveClients
NoThread == "none"
NoSnap == <<"no snapshot">>
NoChunk == [timestamps |-> <<>>, samples |-> <<>>]
\* No LSLStreamer feeds the window: there is none, or its thread has ended
\* (line 207 found proceed False, line 214 caught a SerialException, or an
\* uncaught exception ended run()).
NotRunning == {"none", "exited", "disconnected", "died"}

VARIABLES
  _data,       \* self._data: the window (a sequence of samples)
  _count,      \* self._count: samples left before the next write
  _lock,       \* self._lock: the thread holding it, or NoThread
  updated,     \* self.updated: the threading.Event's flag
  _file,       \* self._file: the batches written by np.savetxt, in order
  pc,          \* where each thread is
  timestamps,  \* update(): argument timestamps of the call in progress
  samples,     \* update(): argument samples of the call in progress
  new,         \* update(): local new, the formatted chunk
  cutoff,      \* update(): local cutoff
  arg,         \* _append(): its parameter new
  phase,       \* update(): 1 in the _append of line 103, 2 in that of line 107
  snap,        \* value the data property last returned to each thread
  count0,      \* history: _count when the call in progress was made
  data0,       \* history: _data when the call in progress was made
  file0,       \* history: _file when the call in progress was made
  delivered,   \* history: every sample handed to update, in order
  has_data,    \* whether the attribute self._data exists
  raised,      \* the exception each thread's last call ended with, or "none"
  proceed,     \* LSLStreamer.proceed
  dejitter,    \* LSLStreamer.dejitter
  run_pc,      \* where the LSLStreamer thread is in run(); "none": no streamer
  pulled       \* run(): the timestamps and samples of the last pull_chunk

\* The LSLStreamer's own state.
svars == <<proceed, dejitter, run_pc, pulled>>

vars == <<_data, _count, _lock, updated, _file, pc, timestamps, samples, new,
          cutoff, arg, phase, snap, count0, data0, file0, delivered,
          has_data, raised, svars>>

\* ------------------------------------------------------------ samples
\* One element of the structured array: ('time', 'channels'), lines 63-65.
Sample(i) == [time |-> i, channels |-> <<i>>]
\* np.zeros((n_samples,), dtype): line 91.
Zeros == [i \in 1..n_samples |-> Sample(0)]

Min(a, b) == IF a <= b THEN a ELSE b
Max(a, b) == IF a >= b THEN a ELSE b

\* Python s[:c]
SliceTo(s, c) ==
  IF c >= 0 THEN SubSeq(s, 1, Min(c, Len(s)))
            ELSE SubSeq(s, 1, Max(Len(s) + c, 0))
\* Python s[c:]
SliceFrom(s, c) ==
  IF c >= 0 THEN SubSeq(s, Min(c, Len(s)) + 1, Len(s))
            ELSE SubSeq(s, Max(Len(s) + c, 0) + 1, Len(s))

\* _format_samples: zip() stops at the shorter of its two arguments.
format_samples(ts, ss) ==
  [i \in 1..Min(Len(ts), Len(ss)) |-> [time |-> ts[i], channels |-> ss[i]]]

\* The k values that follow the d samples already handed over.
Fresh(d, k) == [i \in 1..k |-> d + i]
FreshTuples(d, k) == [i \in 1..k |-> <<d + i>>]

\* ---------------------------------------------------------- the lock
\* (acquire_unguarded is acquire without the wait: a lock that excludes
\* nobody.)
\* threading.Lock.acquire(): blocks until nobody holds the lock; it does
\* not look at who asks, so the holder asking again waits for itself.
acquire_unguarded(t) == _lock' = t
acquire(t) == _lock = NoThread /\ _lock' = t
\* threading.Lock.release(), at the end of a with block.
release(t) == _lock' = NoThread

\* ------------------------------------------------------------- Init
\* The object the two constructors are written to build: the window of
\* initialize() (line 27), _count = n_samples (line 70), a free lock and a
\* clear event (lines 32-33), an empty file opened for appending (line 85).
\* (As written they cannot finish: line 27 runs initialize() before lines
\* 33, 65 and 69 have made _lock, _dtype and n_samples, and line 68 assigns
\* to window, a property without a setter.)
Constructed ==
  /\ _count = n_samples
  /\ _lock = NoThread
  /\ updated = FALSE
  /\ _file = <<>>
  /\ pc = [t \in Threads |-> "idle"]
  /\ timestamps = <<>>
  /\ samples = <<>>
  /\ new = <<>>
  /\ cutoff = 0
  /\ arg = <<>>
  /\ phase = 1
  /\ snap = [t \in Threads |-> NoSnap]
  /\ count0 = n_samples
  /\ data0 = _data
  /\ file0 = <<>>
  /\ delivered = <<>>
  /\ raised = [t \in Threads |-> "none"]
  /\ proceed = TRUE
  /\ pulled = NoChunk

\* A TimeSeries fed by direct calls of update: no LSLStreamer.
Init ==
  /\ _data = Zeros
  /\ has_data = TRUE
  /\ dejitter = TRUE
  /\ run_pc = "none"
  /\ Constructed

\* ------------------------------------------------- Data.data (35-42)
\* A client reads the property.
data_call(c) ==
  /\ c \in ActiveClients
  /\ pc[c] = "idle"
  /\ pc' = [pc EXCEPT ![c] = "data_lock"]
  /\ raised' = [raised EXCEPT ![c] = "none"]
  /\ UNCHANGED <<_data, _count, _lock, updated, _file, timestamps, samples,
                 new, cutoff, arg, phase, snap, count0, data0, file0,
                 delivered, has_data, svars>>

\* line 39: with self._lock
data_lock(t) ==
  /\ pc[t] = "data_lock"
  /\ acquire(t)
  /\ pc' = [pc EXCEPT ![t] = "data_copy"]
  /\ UNCHANGED <<_data, _count, updated, _file, timestamps, samples, new,
                 cutoff, arg, phase, snap, count0, data0, file0, delivered, has_data, raised, svars>>

\* A getter that releases the lock on the normal path only (acquire and
\* release written out instead of the with block).
data_copy_holding(t) ==
  /\ pc[t] = "data_copy"
  /\ IF has_data
       THEN /\ release(t)
            /\ snap' = [snap EXCEPT ![t] = _data]
            /\ pc' = [pc EXCEPT ![t] = IF t = feeder THEN "append_trim" ELSE "idle"]
            /\ UNCHANGED raised
       ELSE /\ raised' = [raised EXCEPT ![t] = "NotImplementedError"]
            /\ pc' = [pc EXCEPT ![t] = "idle"]
            /\ UNCHANGED <<snap, _lock>>
  /\ UNCHANGED <<_data, _count, updated, _file, timestamps, samples, new,
                 cutoff, arg, phase, count0, data0, file0, delivered,
                 has_data, svars>>

\* line 40: return np.copy(self._data), leaving the with block.  A client
\* is back at its caller; _append goes on with the slice of line 114.
\* Without an attribute _data line 40 raises AttributeError: the with block
\* is left (the lock released) and lines 41-42 raise NotImplementedError
\* to the caller.
data_copy(t) ==
  /\ pc[t] = "data_copy"
  /\ release(t)
  /\ IF has_data
       THEN /\ snap' = [snap EXCEPT ![t] = _data]
            /\ pc' = [pc EXCEPT ![t] = IF t = feeder THEN "append_trim" ELSE "idle"]
            /\ UNCHANGED raised
       ELSE /\ raised' = [raised EXCEPT ![t] = "NotImplementedError"]
            /\ pc' = [pc EXCEPT ![t] = "idle"]
            /\ UNCHANGED snap
  /\ UNCHANGED <<_data, _count, updated, _file, timestamps, samples, new,
                 cutoff, arg, phase, count0, data0, file0, delivered,
                 has_data, svars>>

\* ---------------------------------------- TimeSeries.initialize (88-91)
initialize_call(c) ==
  /\ c \in ActiveClients
  /\ pc[c] = "idle"
  /\ pc' = [pc EXCEPT ![c] = "init_lock"]
  /\ UNCHANGED <<_data, _count, _lock, updated, _file, timestamps, samples,
                 new, cutoff, arg, phase, snap, count0, data0, file0, delivered, has_data, raised, svars>>

\* line 90
initialize_lock(c) ==
  /\ pc[c] = "init_lock"
  /\ acquire(c)
  /\ pc' = [pc EXCEPT ![c] = "init_zeros"]
  /\ UNCHANGED <<_data, _count, updated, _file, timestamps, samples, new,
                 cutoff, arg, phase, snap, count0, data0, file0, delivered, has_data, raised, svars>>

\* line 91, leaving the with block
initialize_zeros(c) ==
  /\ pc[c] = "init_zeros"
  /\ _data' = Zeros
  /\ has_data' = TRUE
  /\ release(c)
  /\ pc' = [pc EXCEPT ![c] = "idle"]
  /\ UNCHANGED <<_count, updated, _file, timestamps, samples, new, cutoff,
                 arg, phase, snap, count0, data0, file0, delivered, raised,
                 svars>>

\* ------------------------------------------ TimeSeries.update (94-109)
\* Lines 99 and 102 exchanged: the cutoff taken from the counter before
\* the chunk is counted.
update_enter_cutoff_first(ts, ss) ==
  /\ pc[feeder] = "idle"
  /\ timestamps' = ts
  /\ samples' = ss
  /\ new' = format_samples(ts, ss)
  /\ cutoff' = Len(new') + _count
  /\ _count' = _count - Len(new')
  /\ arg' = SliceTo(new', cutoff')
  /\ phase' = 1
  /\ count0' = _count
  /\ data0' = _data
  /\ file0' = _file
  /\ delivered' = delivered \o new'
  /\ pc' = [pc EXCEPT ![feeder] = "append_lock"]
  /\ raised' = [raised EXCEPT ![feeder] = "none"]
  /\ UNCHANGED <<_data, _lock, updated, _file, snap, has_data>>

\* lines 97-103, up to the call of _append(new[:cutoff]): no lock is taken.
update_enter(ts, ss) ==
  /\ pc[feeder] = "idle"
  /\ timestamps' = ts
  /\ samples' = ss
  /\ new' = format_samples(ts, ss)
  /\ _count' = _count - Len(new')
  /\ cutoff' = Len(new') + _count'
  /\ arg' = SliceTo(new', cutoff')
  /\ phase' = 1
  /\ count0' = _count
  /\ data0' = _data
  /\ file0' = _file
  /\ delivered' = delivered \o new'
  /\ pc' = [pc EXCEPT ![feeder] = "append_lock"]
  /\ raised' = [raised EXCEPT ![feeder] = "none"]
  /\ UNCHANGED <<_data, _lock, updated, _file, snap, has_data>>

\* update called by a feeder that is no running LSLStreamer.
update_call(ts, ss) ==
  /\ run_pc \in NotRunning
  /\ update_enter(ts, ss)
  /\ UNCHANGED svars

update ==
  \E kt, ks \in 0..MaxChunk :
    /\ Len(delivered) + Max(kt, ks) <= MaxTotal
    /\ update_call(Fresh(Len(delivered), kt), FreshTuples(Len(delivered), ks))

\* ----------------------------------------- TimeSeries._append (111-114)
\* line 112: with self._lock
append_lock ==
  /\ pc[feeder] = "append_lock"
  /\ acquire(feeder)
  /\ pc' = [pc EXCEPT ![feeder] = "append_concat"]
  /\ UNCHANGED <<_data, _count, updated, _file, timestamps, samples, new,
                 cutoff, arg, phase, snap, count0, data0, file0, delivered, has_data, raised, svars>>

\* line 113; line 114 then reads self.data, the property of lines 35-42.
\* Without an attribute _data line 113 raises AttributeError, which leaves
\* the with block (the lock released), _append and update; in run() it is
\* not the exception line 214 catches, so the thread ends with it.
append_concat ==
  /\ pc[feeder] = "append_concat"
  /\ IF has_data
       THEN /\ _data' = _data \o arg
            /\ pc' = [pc EXCEPT ![feeder] = "data_lock"]
            /\ UNCHANGED <<_lock, raised, run_pc>>
       ELSE /\ release(feeder)
            /\ raised' = [raised EXCEPT ![feeder] = "AttributeError"]
            /\ pc' = [pc EXCEPT ![feeder] = "idle"]
            /\ run_pc' = IF run_pc = "in_update" THEN "died" ELSE run_pc
            /\ UNCHANGED _data
  /\ UNCHANGED <<_count, updated, _file, timestamps, samples, new, cutoff,
                 arg, phase, snap, count0, data0, file0, delivered, has_data,
                 proceed, dejitter, pulled>>

\* line 114, once self.data has returned its copy: keep the last
\* n_samples of it and leave the with block of line 112.  Back in update,
\* which goes on at line 104 (after line 103) or line 109 (after line 107).
append_trim ==
  /\ pc[feeder] = "append_trim"
  /\ _data' = SliceFrom(snap[feeder], 0 - n_samples)
  /\ release(feeder)
  /\ pc' = [pc EXCEPT ![feeder] = IF phase = 1 THEN "count_test" ELSE "updated_set"]
  /\ UNCHANGED <<_count, updated, _file, timestamps, samples, new, cutoff,
                 arg, phase, snap, count0, data0, file0, delivered, has_data, raised, svars>>

\* ------------------------------------ TimeSeries.update, lines 104-109
\* line 104: if self._count < 1
count_test ==
  /\ pc[feeder] = "count_test"
  /\ pc' = [pc EXCEPT ![feeder] = IF _count < 1 THEN "write_lock" ELSE "append_rest"]
  /\ UNCHANGED <<_data, _count, _lock, updated, _file, timestamps, samples,
                 new, cutoff, arg, phase, snap, count0, data0, file0, delivered, has_data, raised, svars>>

\* _write_to_file, line 117: with self._lock
write_lock ==
  /\ pc[feeder] = "write_lock"
  /\ acquire(feeder)
  /\ pc' = [pc EXCEPT ![feeder] = "write_savetxt"]
  /\ UNCHANGED <<_data, _count, updated, _file, timestamps, samples, new,
                 cutoff, arg, phase, snap, count0, data0, file0, delivered, has_data, raised, svars>>

\* _write_to_file, line 118: np.savetxt(self._file, self._data)
write_savetxt ==
  /\ pc[feeder] = "write_savetxt"
  /\ _file' = Append(_file, _data)
  /\ release(feeder)
  /\ pc' = [pc EXCEPT ![feeder] = "count_reset"]
  /\ UNCHANGED <<_data, _count, updated, timestamps, samples, new, cutoff,
                 arg, phase, snap, count0, data0, file0, delivered, has_data, raised, svars>>

\* _write_to_file, line 118 raising (the disk is full, the file is
\* closed): the with block of line 117 is left, the lock released, and the
\* exception leaves update at line 105; lines 106-109 are not run.
write_fail ==
  /\ pc[feeder] = "write_savetxt"
  /\ release(feeder)
  /\ raised' = [raised EXCEPT ![feeder] = "OSError"]
  /\ pc' = [pc EXCEPT ![feeder] = "idle"]
  /\ run_pc' = IF run_pc = "in_update" THEN "died" ELSE run_pc
  /\ UNCHANGED <<_data, _count, updated, _file, timestamps, samples, new,
                 cutoff, arg, phase, snap, count0, data0, file0, delivered,
                 has_data, proceed, dejitter, pulled>>

\* line 106
count_reset ==
  /\ pc[feeder] = "count_reset"
  /\ _count' = n_samples
  /\ pc' = [pc EXCEPT ![feeder] = "append_rest"]
  /\ UNCHANGED <<_data, _lock, updated, _file, timestamps, samples, new,
                 cutoff, arg, phase, snap, count0, data0, file0, delivered, has_data, raised, svars>>

\* line 107: self._append(new[cutoff:])
append_rest ==
  /\ pc[feeder] = "append_rest"
  /\ arg' = SliceFrom(new, cutoff)
  /\ phase' = 2
  /\ pc' = [pc EXCEPT ![feeder] = "append_lock"]
  /\ UNCHANGED <<_data, _count, _lock, updated, _file, timestamps, samples,
                 new, cutoff, snap, count0, data0, file0, delivered, has_data, raised, svars>>

\* line 109
updated_set ==
  /\ pc[feeder] = "updated_set"
  /\ updated' = TRUE
  /\ pc' = [pc EXCEPT ![feeder] = "idle"]
  /\ UNCHANGED <<_data, _count, _lock, _file, timestamps, samples, new,
                 cutoff, arg, phase, snap, count0, data0, file0, delivered, has_data, raised, svars>>

\* -------------------------------------------- LSLStreamer (142-222)
\* A start() that an ended thread would accept.
thread_start_again ==
  /\ run_pc \in {"created", "exited", "disconnected", "died"}
  /\ run_pc' = "test"
  /\ UNCHANGED <<_data, _count, _lock, updated, _file, pc, timestamps,
                 samples, new, cutoff, arg, phase, snap, count0, data0, file0,
                 delivered, has_data, raised, proceed, dejitter, pulled>>

\* threading.Thread.start(), from line 202 (autostart) or from the owner:
\* a thread is started once, a second start() raises RuntimeError.
thread_start ==
  /\ run_pc = "created"
  /\ run_pc' = "test"
  /\ UNCHANGED <<_data, _count, _lock, updated, _file, pc, timestamps,
                 samples, new, cutoff, arg, phase, snap, count0, data0, file0,
                 delivered, has_data, raised, proceed, dejitter, pulled>>

\* line 207: while self.proceed
run_test ==
  /\ run_pc = "test"
  /\ run_pc' = IF proceed THEN "pull" ELSE "exited"
  /\ UNCHANGED <<_data, _count, _lock, updated, _file, pc, timestamps,
                 samples, new, cutoff, arg, phase, snap, count0, data0, file0,
                 delivered, has_data, raised, proceed, dejitter, pulled>>

\* line 208: pull_chunk returns within its timeout, with no sample or with
\* up to max_samples of them.
run_pull ==
  /\ run_pc = "pull"
  /\ \E k \in 0..MaxChunk :
       /\ Len(delivered) + k <= MaxTotal
       /\ pulled' = [timestamps |-> Fresh(Len(delivered), k),
                     samples |-> FreshTuples(Len(delivered), k)]
  /\ run_pc' = "if"
  /\ UNCHANGED <<_data, _count, _lock, updated, _file, pc, timestamps,
                 samples, new, cutoff, arg, phase, snap, count0, data0, file0,
                 delivered, has_data, raised, proceed, dejitter>>

\* line 208 raising SerialException, caught at line 214: line 215 prints and
\* run() ends.
run_disconnect ==
  /\ run_pc = "pull"
  /\ run_pc' = "disconnected"
  /\ UNCHANGED <<_data, _count, _lock, updated, _file, pc, timestamps,
                 samples, new, cutoff, arg, phase, snap, count0, data0, file0,
                 delivered, has_data, raised, proceed, dejitter, pulled>>

\* lines 209-210: if timestamps, if self.dejitter
run_if ==
  /\ run_pc = "if"
  /\ run_pc' = IF pulled.timestamps = <<>> THEN "test"
               ELSE IF dejitter THEN "dejitter" ELSE "update"
  /\ UNCHANGED <<_data, _count, _lock, updated, _file, pc, timestamps,
                 samples, new, cutoff, arg, phase, snap, count0, data0, file0,
                 delivered, has_data, raised, proceed, dejitter, pulled>>

\* line 211, _dejitter_timestamps (218-222): the argument last_time is
\* self.data['time'][-1], and self.data is the TimeSeries object of lines
\* 189-192, which cannot be subscripted: TypeError, raised before
\* utils.dejitter_timestamps is called.  Line 214 catches SerialException
\* only, so the thread ends with the TypeError.
run_dejitter ==
  /\ run_pc = "dejitter"
  /\ run_pc' = "died"
  /\ raised' = [raised EXCEPT ![feeder] = "TypeError"]
  /\ UNCHANGED <<_data, _count, _lock, updated, _file, pc, timestamps,
                 samples, new, cutoff, arg, phase, snap, count0, data0, file0,
                 delivered, has_data, proceed, dejitter, pulled>>

\* line 212: self.data.update(timestamps, samples)
run_update ==
  /\ run_pc = "update"
  /\ update_enter(pulled.timestamps, pulled.samples)
  /\ run_pc' = "in_update"
  /\ UNCHANGED <<proceed, dejitter, pulled>>

\* line 212 returning: back to line 207.
run_return ==
  /\ run_pc = "in_update"
  /\ pc[feeder] = "idle"
  /\ run_pc' = "test"
  /\ UNCHANGED <<_data, _count, _lock, updated, _file, pc, timestamps,
                 samples, new, cutoff, arg, phase, snap, count0, data0, file0,
                 delivered, has_data, raised, proceed, dejitter, pulled>>

\* The owner sets proceed to False (line 195) ...
stop_request ==
  /\ run_pc # "none"
  /\ proceed
  /\ proceed' = FALSE
  /\ UNCHANGED <<_data, _count, _lock, updated, _file, pc, timestamps,
                 samples, new, cutoff, arg, phase, snap, count0, data0, file0,
                 delivered, has_data, raised, dejitter, run_pc, pulled>>

\* ... or back to True.
proceed_again ==
  /\ run_pc # "none"
  /\ ~proceed
  /\ proceed' = TRUE
  /\ UNCHANGED <<_data, _count, _lock, updated, _file, pc, timestamps,
                 samples, new, cutoff, arg, phase, snap, count0, data0, file0,
                 delivered, has_data, raised, dejitter, run_pc, pulled>>

\* ------------------------------------------------------------- Next
\* The steps a thread takes by itself once it is inside a call.
FeederSteps ==
  \/ append_lock
  \/ append_concat
  \/ data_lock(feeder)
  \/ data_copy(feeder)
  \/ append_trim
  \/ count_test
  \/ write_lock
  \/ write_savetxt
  \/ count_reset
  \/ append_rest
  \/ updated_set

ClientSteps(c) ==
  \/ data_lock(c)
  \/ data_copy(c)
  \/ initialize_lock(c)
  \/ initialize_zeros(c)

\* The program: every statement a thread can reach.  With threading.Lock
\* the feeder never gets past the self.data of line 114, so the statements
\* after it (append_trim to updated_set) are no steps of the program.
Next ==
  \/ update
  \/ append_lock
  \/ append_concat
  \/ \E c \in ActiveClients : data_call(c)
  \/ \E t \in Threads : data_lock(t)
  \/ \E t \in Threads : data_copy(t)
  \/ \E c \in ActiveClients : initialize_call(c)
  \/ \E c \in ActiveClients : initialize_lock(c)
  \/ \E c \in ActiveClients : initialize_zeros(c)

Spec == Init /\ [][Next]_vars

\* The threads are scheduled: a thread inside a call whose next statement
\* can run again and again does run it.  Calls are the callers' choice.
\* (Strong fairness is more than a scheduler promises: a thread is then
\* never starved of the lock, so a call that does not return under it is
\* stopped by the program itself, and does not return under any weaker
\* scheduling either.)
Fairness ==
  /\ SF_vars(FeederSteps)
  /\ \A c \in ActiveClients : SF_vars(ClientSteps(c))

FairSpec == Spec /\ Fairness

\* ------------------------------------------------- with an LSLStreamer
\* A TimeSeries fed by an LSLStreamer made with it (line 192), with or
\* without dejitter, not yet started.  Once its thread has ended the
\* window can be fed by direct calls of update.
StreamInit ==
  /\ _data = Zeros
  /\ has_data = TRUE
  /\ dejitter \in BOOLEAN
  /\ run_pc = "created"
  /\ Constructed

\* The steps of run() the thread takes by itself.
RunSteps ==
  \/ run_test
  \/ run_pull
  \/ run_disconnect
  \/ run_if
  \/ run_dejitter
  \/ run_update
  \/ run_return

\* run_return is no step of the program: no update call returns.
StreamNext ==
  \/ Next
  \/ thread_start
  \/ run_test
  \/ run_pull
  \/ run_disconnect
  \/ run_if
  \/ run_dejitter
  \/ run_update
  \/ stop_request
  \/ proceed_again

StreamSpec == StreamInit /\ [][StreamNext]_vars

StreamFairSpec == StreamSpec /\ Fairness /\ SF_vars(RunSteps)

\* ------------------------------------------- without a window
\* A Data object whose initialize() has not made the attribute _data (the
\* case lines 41-42 are written for).
UninitInit ==
  /\ _data = <<>>
  /\ has_data = FALSE
  /\ dejitter = TRUE
  /\ run_pc = "none"
  /\ Constructed

UninitSpec == UninitInit /\ [][Next]_vars

\* ------------------------------------------------- a re-entrant lock
\* The same statements against threading.RLock in place of threading.Lock:
\* the holder's second acquisition at line 39 succeeds and the matching
\* release leaves the lock with _append.  This is not the program; it
\* shows what lines 104-109 compute once line 114 lets them run.
reentrant_data_lock ==
  /\ pc[feeder] = "data_lock"
  /\ _lock = feeder
  /\ pc' = [pc EXCEPT ![feeder] = "data_copy_held"]
  /\ UNCHANGED <<_data, _count, _lock, updated, _file, timestamps, samples,
                 new, cutoff, arg, phase, snap, count0, data0, file0, delivered, has_data, raised, svars>>

reentrant_data_copy ==
  /\ pc[feeder] = "data_copy_held"
  /\ snap' = [snap EXCEPT ![feeder] = _data]
  /\ pc' = [pc EXCEPT ![feeder] = "append_trim"]
  /\ UNCHANGED <<_data, _count, _lock, updated, _file, timestamps, samples,
                 new, cutoff, arg, phase, count0, data0, file0, delivered, has_data, raised, svars>>

\* One client is enough here.
ReentrantNext ==
  \/ update
  \/ append_lock
  \/ append_concat
  \/ data_call(ClientNames[1])
  \/ data_lock(ClientNames[1])
  \/ data_copy(ClientNames[1])
  \/ initialize_call(ClientNames[1])
  \/ initialize_lock(ClientNames[1])
  \/ initialize_zeros(ClientNames[1])
  \/ reentrant_data_lock
  \/ reentrant_data_copy
  \/ append_trim
  \/ count_test
  \/ write_lock
  \/ write_savetxt
  \/ write_fail
  \/ count_reset
  \/ append_rest
  \/ updated_set

ReentrantSpec == Init /\ [][ReentrantNext]_vars

\* ============================================================ claims
InUpdate == pc[feeder] # "idle"
Returned == pc[feeder] = "idle"

RECURSIVE Flatten(_)
Flatten(batches) ==
  IF batches = <<>> THEN <<>> ELSE Head(batches) \o Flatten(Tail(batches))

IsPrefix(a, b) == Len(a) <= Len(b) /\ SubSeq(b, 1, Len(a)) = a

LockPoints == {"data_lock", "init_lock", "append_lock", "write_lock"}

\* C1: every update call returns, and the window it leaves (what the data
\* property then hands out) has exactly n_samples samples.
C1_UpdateLeavesCapacity ==
  InUpdate ~> (Returned /\ Len(_data) = n_samples)

\* C2: every sample handed to update reaches the file: once n_samples
\* samples have been handed over, the file holds the first n_samples of
\* them, and what the file holds is a prefix of the samples handed over.
C2_EverySampleReachesFile ==
  (Len(delivered) >= n_samples)
    ~> (/\ Len(Flatten(_file)) >= n_samples
        /\ IsPrefix(Flatten(_file), delivered))

\* C3: one write per n_samples samples: when an update call has returned,
\* the number of batches written is the number of samples handed over so
\* far divided by n_samples, remainder dropped.
C3_WriteEveryCapacitySamples ==
  InUpdate ~> (Returned /\ Len(_file) = Len(delivered) \div n_samples)

\* C4: sliding window: when an update call has returned, the window is the
\* last n_samples of (the window before the call, then the chunk).
C4_WindowSlides ==
  InUpdate ~> (Returned /\ _data = SliceFrom(data0 \o new, 0 - n_samples))

\* C5: an update whose chunk has exactly _count samples writes exactly one
\* batch, the window after the whole chunk, and returns with
\* _count = n_samples.
C5_ExactFillWritesOnce ==
  (InUpdate /\ Len(new) = count0)
    ~> (/\ Returned
        /\ Len(_file) = Len(file0) + 1
        /\ _file[Len(_file)] = SliceFrom(data0 \o new, 0 - n_samples)
        /\ _count = n_samples)

\* C6: an update whose chunk has more than _count samples writes the
\* window as it is after the first _count samples of the chunk, resets
\* _count to n_samples, appends the rest and returns.
C6_StraddlingChunkSplits ==
  (InUpdate /\ Len(new) > count0)
    ~> (/\ Returned
        /\ Len(_file) = Len(file0) + 1
        /\ _file[Len(_file)] =
             SliceFrom(data0 \o SliceTo(new, count0), 0 - n_samples)
        /\ _count = n_samples
        /\ _data = SliceFrom(data0 \o new, 0 - n_samples))

\* C7: an update call whose timestamps and samples differ in length leaves
\* the window, _count and the file as they were when it was made.
C7_InvalidChunkChangesNothing ==
  Len(timestamps) # Len(samples)
    => (_count = count0 /\ _data = data0 /\ _file = file0)

\* C8: no thread asks for the lock while it holds the lock itself.
C8_LockNeverReentered ==
  \A t \in Threads : pc[t] \in LockPoints => _lock # t

\* C9: update is one critical section: from the call to the return the
\* feeder holds the lock.
C9_UpdateHoldsLockThroughout ==
  InUpdate => _lock = feeder

\* C10: whatever the interleaving, a snapshot handed to a client has
\* exactly n_samples samples, and a window of another length exists only
\* while the feeder holds the lock.
C10_SnapshotsHaveCapacity ==
  /\ \A c \in ActiveClients : snap[c] # NoSnap => Len(snap[c]) = n_samples
  /\ Len(_data) # n_samples => _lock = feeder

\* C10 witness: a chunk longer than the window is being appended, the
\* window is concatenated and not trimmed, one client holds a snapshot and
\* another waits for one.
C10_Witness ==
  /\ Len(new) > n_samples
  /\ Len(_data) > n_samples
  /\ \E c \in ActiveClients : snap[c] # NoSnap
  /\ \E c \in ActiveClients : pc[c] = "data_lock"

\* C11: every update call sets the updated event, once both sub-appends
\* and the write are done: the call returns with the event set.
C11_UpdateSetsSignal ==
  InUpdate ~> (Returned /\ updated)

\* ------------------------------------------- the streaming thread
\* The lifecycle of the spec, read off the thread's position in run().
Running == run_pc \in {"test", "pull", "if", "dejitter", "update", "in_update"}
Stopped == run_pc \in {"exited", "disconnected", "died"}

\* C12: once proceed is False while the thread runs, the thread reaches
\* STOPPED (unless proceed is set back to True first).
C12_StopFlagStopsThread ==
  (Running /\ ~proceed) ~> (Stopped \/ proceed)

Rank(p) == IF p = "created" THEN 0 ELSE IF p \in {"exited", "disconnected", "died"} THEN 2 ELSE 1

\* C13: the thread's lifecycle only moves forward (created, in the loop,
\* ended); a pull is started only from line 207 having read proceed True,
\* and line 207 reading it False ends the loop; an ended thread pulls
\* nothing, calls no update and is not started again, whatever proceed
\* becomes.
C13_LifecycleForward ==
  [][ /\ Rank(run_pc') >= Rank(run_pc)
      /\ (run_pc' = "pull" /\ run_pc # "pull") => (run_pc = "test" /\ proceed)
      /\ (run_pc = "test" /\ ~proceed /\ run_pc' # run_pc) => run_pc' = "exited"
      /\ (run_pc' = "in_update" /\ run_pc # "in_update") => Running
      /\ Stopped => (run_pc' = run_pc /\ pulled' = pulled) ]_vars

\* C13 witness: the loop has ended on proceed False and proceed is True
\* again.
C13_Witness ==
  /\ run_pc = "exited"
  /\ proceed

\* C14: after a pull has raised SerialException the thread has ended and
\* the window is usable: an update called afterwards by a new feeder
\* returns, the chunk applied and the window at n_samples samples.
C14_UsableAfterDisconnect ==
  (run_pc = "disconnected" /\ InUpdate) ~> (Returned /\ Len(_data) = n_samples)

\* ------------------------------------------- the window not initialized
\* C15: a read of the data property that ends while there is no window
\* ends with NotImplementedError, hands out no data and leaves the lock
\* free.
C15_UninitializedReadFails ==
  [][ \A c \in ActiveClients :
        (pc[c] = "data_copy" /\ pc'[c] = "idle" /\ ~has_data)
          => /\ raised'[c] = "NotImplementedError"
             /\ snap'[c] = NoSnap
             /\ _lock' = NoThread ]_vars

\* C15 witness: a client's read has failed with NotImplementedError, there
\* is still no window, and another client is asking for the lock.
C15_Witness ==
  /\ ~has_data
  /\ _lock = NoThread
  /\ \E c \in ActiveClients :
       /\ pc[c] = "idle"
       /\ raised[c] = "NotImplementedError"
       /\ snap[c] = NoSnap
  /\ \E c \in ActiveClients : pc[c] = "data_lock"

\* C16: a pull that returned samples is followed by the update call that
\* carries them.
C16_PullLeadsToUpdate ==
  (run_pc = "if" /\ pulled.timestamps # <<>>)
    ~> (run_pc = "in_update" /\ samples = pulled.samples)

\* C17: every update call the streaming thread makes runs to its end
\* (both sub-appends, the write if due, the event set) and returns to the
\* loop, whatever proceed becomes meanwhile.
C17_StartedUpdateCompletes ==
  (run_pc = "in_update") ~> (Returned /\ updated /\ Len(_data) = n_samples)

\* ------------------------------------------- the counter and the file
\* C19: with no update call in progress 1 <= _count <= n_samples; inside
\* a call the cutoff is the value _count had before the call, at least 1,
\* the first sub-append is given new[:cutoff] (the chunk's first cutoff
\* samples, the whole chunk if it is shorter), and at most one batch has
\* been written since the call began.
C19_CounterInRange ==
  /\ Returned => (1 <= _count /\ _count <= n_samples)
  /\ InUpdate =>
       /\ cutoff = count0
       /\ 1 <= cutoff /\ cutoff <= n_samples
       /\ \/ _count = count0 - Len(new)
          \/ (_count = n_samples /\ count0 - Len(new) < 1)
       /\ phase = 1 => arg = SubSeq(new, 1, Min(cutoff, Len(new)))
       /\ Len(_file) <= Len(file0) + 1

\* C19 witness: an update call is in progress whose chunk is longer than
\* what the counter had left, so the cutoff falls inside the chunk.
C19_Witness ==
  /\ InUpdate
  /\ Len(new) > count0
  /\ _count < 0
  /\ Len(arg) = cutoff

====
